---- MODULE Spec2Model ----
(***************************************************************************)
(* Model of the charabia segmentation pipeline (charabia/src/segmenter):   *)
(* the script-run splitter, the separator splitter (AhoSegmentedStrIter),  *)
(* the composer (SegmentedStrIter), the dispatch function segmenter(), the *)
(* per-script segmenters and the position resolver (SegmentedTokenIter).   *)
(*                                                                         *)
(* A text is a sequence of characters; a character is a short name with a  *)
(* script (Script::from) and a UTF-8 width (Utf8Len).  All offsets the     *)
(* code computes in bytes are computed in bytes here.                      *)
(***************************************************************************)
EXTENDS Integers, Sequences, FiniteSets, TLC

(***************************************************************************)
(* Bounds of the model.                                                    *)
(***************************************************************************)
\* longest input text of the pipeline, in characters
MaxLen == 3
\* longest span handed to one segmenter / one separator splitter on its own
MaxSpan == 3

(***************************************************************************)
(* Characters.                                                             *)
(***************************************************************************)
LatinChars == {"a", "B"}
\* whitespace and punctuation: Script::Other
OtherChars == {" ", ","}
\* the hyphen and the underscore of "kebab-case" and "snake_case": Script::Other
JoinerChars == {"-", "_"}
\* the five alef forms of the article prefixes, lam, and one more letter
AlefChars == {"alef", "alef_hamza_above", "alef_hamza_below", "alef_madda", "alef_wasla"}
ArabicChars == AlefChars \cup {"lam", "seen"}
ThaiChars == {"ko_kai", "sara_a", "kho_khai", "ngo_ngu"}
HangulChars == {"han"}
CjChars == {"ji", "qi"}

AllChars == LatinChars \cup OtherChars \cup ArabicChars \cup ThaiChars \cup HangulChars \cup CjChars

\* the characters the pipeline's input texts are drawn from
PipeChars == {"a"} \cup OtherChars \cup {"alef", "lam"} \cup {"ko_kai"} \cup HangulChars \cup CjChars

\* Script::from(c)
ScriptOf(c) ==
    IF c \in LatinChars THEN "Latin"
    ELSE IF c \in ArabicChars THEN "Arabic"
    ELSE IF c \in ThaiChars THEN "Thai"
    ELSE IF c \in HangulChars THEN "Hangul"
    ELSE IF c \in CjChars THEN "Cj"
    ELSE "Other"

Scripts == {"Latin", "Arabic", "Thai", "Hangul", "Cj", "Other"}
Languages == {"Cmn", "Jpn", "Kor", "Tha", "Ara", "Other"}

\* char::len_utf8: ASCII 1 byte, Arabic block 2 bytes, Thai / Hangul / CJK 3 bytes
Utf8Len(c) ==
    IF c \in LatinChars \cup OtherChars \cup JoinerChars THEN 1
    ELSE IF c \in ArabicChars THEN 2
    ELSE 3

IsUpper(c) == c = "B"
IsLower(c) == c = "a"

(***************************************************************************)
(* Strings: str::len (bytes), chars().count(), byte slicing.               *)
(***************************************************************************)
RECURSIVE ByteLen(_)
ByteLen(s) == IF s = <<>> THEN 0 ELSE Utf8Len(Head(s)) + ByteLen(Tail(s))

CharCount(s) == Len(s)

\* byte offset of the boundary after the first k characters
ByteOff(s, k) == ByteLen(SubSeq(s, 1, k))

IsBoundary(s, b) == \E k \in 0..Len(s) : ByteOff(s, k) = b

\* number of characters before byte offset b (b on a character boundary)
CharIdx(s, b) == CHOOSE k \in 0..Len(s) : ByteOff(s, k) = b

\* &s[b1..b2]
Slice(s, b1, b2) == SubSeq(s, CharIdx(s, b1) + 1, CharIdx(s, b2))

\* s.starts_with(p)
StartsWith(s, p) == Len(p) <= Len(s) /\ SubSeq(s, 1, Len(p)) = p

RECURSIVE Concat(_)
Concat(ss) == IF ss = <<>> THEN <<>> ELSE Head(ss) \o Concat(Tail(ss))

\* all texts over a set of characters, of at most n characters
TextsUpTo(chars, n) == UNION {[1..k -> chars] : k \in 0..n}

\* Option<T>: None is <<>>, Some(x) is <<x>>
None == <<>>
Some(x) == <<x>>

(***************************************************************************)
(* State.                                                                  *)
(***************************************************************************)
VARIABLES
    \* the build and the external collaborators
    features,       \* cargo features the crate is built with (the cfg attributes)
    whatlang,       \* the language the detector answers when language() is called
    lindera,        \* how the morphological analyzer tiles a span
    lastFlags,      \* is_last_token of the sub-spans of a ChineseSegmenter call
    \* segment(): the input and SegmenterOption
    original,       \* the text segment() is called on
    options_aho,    \* SegmenterOption::aho: None, or Some(set of separator patterns)
    \* SegmentedStrIter
    inner,          \* the script-run iterator: [rest, current_script]
    current,        \* sub-spans of the last segment_str call not yielded yet
    aho_iter,       \* Option<AhoSegmentedStrIter>
    self_segmenter, \* SegmentedStrIter::segmenter
    script,         \* SegmentedStrIter::script
    language,       \* SegmentedStrIter::language: Option<Language>
    \* SegmentedTokenIter
    char_index,
    byte_index,
    \* what the caller has observed
    tokens,         \* the tokens next() has returned, in order
    items,          \* the TokenItem each of them was made from
    done,           \* next() has returned None
    langCalls,      \* how many times detector.language() has run
    segCalls,       \* the segment_str calls the composer has made: [segmenter, s]
    \* one call of a pure function on drawn inputs
    call,           \* the function applied and its arguments
    ret,            \* Option: the value it returned
    \* the Lazy statics and the threads that use them
    resources,      \* what the statics' closures read: "ok" or "broken"
    lazy,           \* each static: [state, value, builds]
    threads,        \* each thread: [pc, cell]
    observed        \* what each thread has read from each static: Option

statics == <<resources, lazy, threads, observed>>
env == <<features, whatlang, lindera, lastFlags, statics>>
iter == <<original, options_aho, inner, current, aho_iter, self_segmenter, script, language,
          char_index, byte_index, tokens, items, done, langCalls, segCalls>>
vars == <<env, iter, call, ret>>

AllFeatures == {"chinese", "japanese", "korean", "thai", "latin-camelcase"}

(***************************************************************************)
(* The Lazy statics (once_cell::sync::Lazy) and their closures.            *)
(***************************************************************************)
Threads == {"t1", "t2"}

Cells ==
    {"SEGMENTERS", "DEFAULT_SEGMENTER", "DEFAULT_SEPARATOR_AHO", "LINDERA", "WORDS_FST", "JIEBA"}

\* what can be malformed, corrupt or unreadable when a closure runs
Resources == {"DEFAULT_SEPARATORS", "ko-dic", "words.fst", "words.txt"}

\* the resource the closure of a static reads, "none" for a closure that reads nothing
ResourceOf(c) ==
    CASE c = "DEFAULT_SEPARATOR_AHO" -> "DEFAULT_SEPARATORS"
      [] c = "LINDERA" -> "ko-dic"
      [] c = "WORDS_FST" -> "words.fst"
      [] c = "JIEBA" -> "words.txt"
      [] OTHER -> "none"

Broken(c) == ResourceOf(c) # "none" /\ resources[ResourceOf(c)] = "broken"

\* how a closure ends: with a value, or in a panic
Built(v) == [panic |-> FALSE, data |-> v]
Panic == [panic |-> TRUE, data |-> "none"]

\* read_lines("./words.txt"): no lines when the file is missing or cannot be
\* opened, else its lines
read_lines == IF resources["words.txt"] = "ok" THEN "lines of words.txt" ELSE "no lines"

\* the closure given to Lazy::new for each static: the ones that end in
\* .unwrap() panic on a broken resource; JIEBA's adds what read_lines gave
\* to the default dictionary
Closure(c) ==
    CASE c = "DEFAULT_SEPARATOR_AHO" -> IF Broken(c) THEN Panic ELSE Built("automaton")
      [] c = "LINDERA" -> IF Broken(c) THEN Panic ELSE Built("tokenizer")
      [] c = "WORDS_FST" -> IF Broken(c) THEN Panic ELSE Built("fst")
      [] c = "JIEBA" -> Built(<<"default dictionary", read_lines>>)
      [] c = "SEGMENTERS" -> Built("registry")
      [] c = "DEFAULT_SEGMENTER" -> Built("LatinSegmenter")

Uninit == [state |-> "uninit", value |-> None, builds |-> 0]

\* Lazy::force finds the static free to be initialized by this thread even
\* while another thread is running the closure
LazyCanStart_while_running(c) == lazy[c].state \in {"uninit", "running"}

\* Lazy::force finds the static not initialized and not being initialized
LazyCanStart(c) == lazy[c].state = "uninit"

\* a thread dereferences the static c: it reads the value if there is one,
\* panics if the closure panicked before, starts the closure if nobody has,
\* and waits while another thread runs it
Lazy_force(t, c) ==
    /\ call.fn = "statics"
    /\ threads[t].pc = "idle"
    /\ IF LazyCanStart(c)
       THEN /\ lazy' = [lazy EXCEPT ![c].state = "running"]
            /\ threads' = [threads EXCEPT ![t] = [pc |-> "building", cell |-> c]]
            /\ UNCHANGED observed
       ELSE IF lazy[c].state = "complete"
       THEN /\ observed' = [observed EXCEPT ![t][c] = lazy[c].value]
            /\ UNCHANGED <<lazy, threads>>
       ELSE /\ lazy[c].state = "poisoned"
            /\ threads' = [threads EXCEPT ![t].pc = "panicked"]
            /\ UNCHANGED <<lazy, observed>>
    /\ UNCHANGED <<features, whatlang, lindera, lastFlags, resources, iter, call, ret>>

\* the closure run by thread t ends: the value is stored and read, or the
\* panic leaves the static poisoned and unwinds the thread
Lazy_init(t) ==
    /\ call.fn = "statics"
    /\ threads[t].pc = "building"
    /\ \E c \in {threads[t].cell}, r \in {Closure(threads[t].cell)} :
          IF r.panic
          THEN /\ lazy' = [lazy EXCEPT ![c].state = "poisoned"]
               /\ threads' = [threads EXCEPT ![t].pc = "panicked"]
               /\ UNCHANGED observed
          ELSE /\ lazy' = [lazy EXCEPT ![c] =
                              [state |-> "complete",
                               value |-> Some([data |-> r.data, build |-> lazy[c].builds + 1]),
                               builds |-> lazy[c].builds + 1]]
               /\ threads' = [threads EXCEPT ![t].pc = "idle"]
               /\ observed' = [observed EXCEPT ![t][c] = lazy'[c].value]
    /\ UNCHANGED <<features, whatlang, lindera, lastFlags, resources, iter, call, ret>>

\* no static touched, every resource sound
StaticsIdle ==
    /\ resources = [r \in Resources |-> "ok"]
    /\ lazy = [c \in Cells |-> Uninit]
    /\ threads = [t \in Threads |-> [pc |-> "idle", cell |-> "SEGMENTERS"]]
    /\ observed = [t \in Threads |-> [c \in Cells |-> None]]

(***************************************************************************)
(* TokenItem (mod.rs).                                                     *)
(***************************************************************************)
Simple(s) == [kind |-> "Simple", text |-> s]

WithPosition(text, char_start, char_end, byte_start, byte_end, is_last_token) ==
    [kind |-> "WithPosition", text |-> text,
     char_start |-> char_start, char_end |-> char_end,
     byte_start |-> byte_start, byte_end |-> byte_end,
     is_last_token |-> is_last_token]

\* .map(|s| TokenItem::Simple(s)).collect()
Simples(xs) == [i \in 1..Len(xs) |-> Simple(xs[i])]

\* the texts of a sequence of TokenItems
Texts(its) == [i \in 1..Len(its) |-> its[i].text]

(***************************************************************************)
(* LatinSegmenter (latin/mod.rs).                                          *)
(***************************************************************************)
\* camel_case::split_camel_case_bounds: cut before an uppercase letter that
\* follows a lowercase letter
RECURSIVE split_camel_case_bounds(_)
split_camel_case_bounds(s) ==
    LET cuts == {k \in 1..(Len(s) - 1) : IsLower(s[k]) /\ IsUpper(s[k + 1])}
    IN  IF cuts = {} THEN <<s>>
        ELSE LET k == CHOOSE x \in cuts : \A y \in cuts : x <= y
             IN  <<SubSeq(s, 1, k)>> \o split_camel_case_bounds(SubSeq(s, k + 1, Len(s)))

\* LatinSegmenter::segment_str yielding the span whole in every build
LatinSegmenter_segment_str_whole(s) == <<Simple(s)>>

LatinSegmenter_segment_str(s) ==
    IF "latin-camelcase" \in features
    THEN Simples(split_camel_case_bounds(s))
    ELSE <<Simple(s)>>

(***************************************************************************)
(* ArabicSegmenter (arabic.rs).                                            *)
(***************************************************************************)
\* "ال", "أل", "إل", "آل", "ٱل"
ArticlePrefixes ==
    {<<"alef", "lam">>, <<"alef_hamza_above", "lam">>, <<"alef_hamza_below", "lam">>,
     <<"alef_madda", "lam">>, <<"alef_wasla", "lam">>}

\* ArabicSegmenter_segment_str cutting the article after its first character
ArabicSegmenter_segment_str_short_prefix(to_segment) ==
    IF ByteLen(to_segment) > 2 /\ (\E p \in ArticlePrefixes : StartsWith(to_segment, p))
    THEN Simples(<<Slice(to_segment, 0, 2), Slice(to_segment, 4, ByteLen(to_segment))>>)
    ELSE <<Simple(to_segment)>>

ArabicSegmenter_segment_str(to_segment) ==
    IF ByteLen(to_segment) > 2 /\ (\E p \in ArticlePrefixes : StartsWith(to_segment, p))
    THEN Simples(<<Slice(to_segment, 0, 4), Slice(to_segment, 4, ByteLen(to_segment))>>)
    ELSE <<Simple(to_segment)>>

(***************************************************************************)
(* ThaiSegmenter (thai.rs) over utils::FstSegmenter.                       *)
(***************************************************************************)
\* the word dictionary the FST encodes
ThaiWords ==
    {<<"ko_kai", "sara_a">>, <<"ko_kai", "sara_a", "ko_kai">>, <<"ko_kai", "ko_kai">>}

RECURSIVE FstSegmenter_segment_str(_, _)

\* FstSegmenter::segment_str taking the shortest dictionary word at each position
FstSegmenter_segment_str_shortest(words, s) ==
    IF s = <<>> THEN <<>>
    ELSE LET lens == {Len(w) : w \in {x \in words : StartsWith(s, x)}}
             n == IF lens = {} THEN 1 ELSE CHOOSE x \in lens : \A y \in lens : x <= y
         IN  <<SubSeq(s, 1, n)>> \o FstSegmenter_segment_str(words, SubSeq(s, n + 1, Len(s)))

\* FstSegmenter::segment_str: at each position the longest dictionary word
\* starting there, or else the single character
FstSegmenter_segment_str(words, s) ==
    IF s = <<>> THEN <<>>
    ELSE LET lens == {Len(w) : w \in {x \in words : StartsWith(s, x)}}
             n == IF lens = {} THEN 1 ELSE CHOOSE x \in lens : \A y \in lens : y <= x
         IN  <<SubSeq(s, 1, n)>> \o FstSegmenter_segment_str(words, SubSeq(s, n + 1, Len(s)))

ThaiSegmenter_segment_str(to_segment) ==
    Simples(FstSegmenter_segment_str(ThaiWords, to_segment))

(***************************************************************************)
(* KoreanSegmenter (korean.rs) and JapaneseSegmenter over lindera.         *)
(***************************************************************************)
LinderaModes == {"chars", "whole"}

\* Tokenizer::tokenize(..).unwrap(): the analyzer's tokens, in order; the
\* analyzer is opaque, `lindera` says how it tiles the span, or that it
\* gives no token for it ("none")
LINDERA_tokenize(s) ==
    IF lindera = "whole" THEN <<s>>
    ELSE IF lindera = "chars" THEN [i \in 1..Len(s) |-> <<s[i]>>]
    ELSE <<>>

KoreanSegmenter_segment_str(to_segment) ==
    Simples(LINDERA_tokenize(to_segment))

JapaneseSegmenter_segment_str(to_segment) ==
    Simples(LINDERA_tokenize(to_segment))

(***************************************************************************)
(* ChineseSegmenter (chinese.rs) over jieba.                               *)
(***************************************************************************)
\* the words jieba knows
JiebaDict == {<<"ji", "qi">>, <<"ji", "qi", "ji">>}

\* Jieba::cut: the words of the sentence, in order; a known word where one
\* starts, else the single character
RECURSIVE JIEBA_cut(_)
JIEBA_cut(s) ==
    IF s = <<>> THEN <<>>
    ELSE LET lens == {Len(w) : w \in {x \in JiebaDict : StartsWith(s, x)}}
             n == IF lens = {} THEN 1 ELSE CHOOSE x \in lens : \A y \in lens : y <= x
         IN  <<SubSeq(s, 1, n)>> \o JIEBA_cut(SubSeq(s, n + 1, Len(s)))

\* jieba's Token for the characters a+1..b of the sentence
JiebaToken(s, a, b) ==
    [word |-> SubSeq(s, a + 1, b), start |-> a, end |-> b,
     byte_start |-> ByteOff(s, a), byte_end |-> ByteOff(s, b)]

\* the n-grams of the word at start..start+width that are in the dictionary
JiebaGrams(s, start, width, n) ==
    SelectSeq([i \in 1..(width - n + 1) |-> JiebaToken(s, start + i - 1, start + i - 1 + n)],
              LAMBDA t : t.word \in JiebaDict)

\* Jieba::tokenize(sentence, TokenizeMode::Search, hmm): for each word of the
\* cut, its known 2-grams, its known 3-grams, then the word itself
RECURSIVE JiebaSearch(_, _, _)
JiebaSearch(s, words, start) ==
    IF words = <<>> THEN <<>>
    ELSE LET width == Len(Head(words))
             g2 == IF width > 2 THEN JiebaGrams(s, start, width, 2) ELSE <<>>
             g3 == IF width > 3 THEN JiebaGrams(s, start, width, 3) ELSE <<>>
         IN  g2 \o g3 \o <<JiebaToken(s, start, start + width)>>
                \o JiebaSearch(s, Tail(words), start + width)

JIEBA_tokenize(sentence) == JiebaSearch(sentence, JIEBA_cut(sentence), 0)

\* is_last_token of the i-th of the n sub-spans of a call: chinese.rs builds
\* WithPosition without the field, so the source does not decide its value;
\* lastFlags gives the value for the final sub-span and for the ones before it
IsLastToken(i, n) == IF i = n THEN lastFlags.final ELSE lastFlags.earlier

ChineseSegmenter_segment_str(to_segment) ==
    LET toks == JIEBA_tokenize(to_segment)
    IN  [i \in 1..Len(toks) |->
            WithPosition(toks[i].word, toks[i].start, toks[i].end,
                         toks[i].byte_start, toks[i].byte_end, IsLastToken(i, Len(toks)))]

(***************************************************************************)
(* The Segmenter trait object: dyn Segmenter::segment_str.                 *)
(***************************************************************************)
SegmenterKinds ==
    {"LatinSegmenter", "ChineseSegmenter", "JapaneseSegmenter", "KoreanSegmenter",
     "ThaiSegmenter", "ArabicSegmenter"}

Segmenter_segment_str(self, s) ==
    CASE self = "LatinSegmenter" -> LatinSegmenter_segment_str(s)
      [] self = "ChineseSegmenter" -> ChineseSegmenter_segment_str(s)
      [] self = "JapaneseSegmenter" -> JapaneseSegmenter_segment_str(s)
      [] self = "KoreanSegmenter" -> KoreanSegmenter_segment_str(s)
      [] self = "ThaiSegmenter" -> ThaiSegmenter_segment_str(s)
      [] self = "ArabicSegmenter" -> ArabicSegmenter_segment_str(s)

(***************************************************************************)
(* The registry and dispatch (mod.rs).                                     *)
(***************************************************************************)
Entry(s, l, seg) == [key |-> <<s, l>>, value |-> seg]

\* SEGMENTERS: the entries the build's features compile in
SEGMENTERS ==
    {Entry("Latin", "Other", "LatinSegmenter"), Entry("Arabic", "Ara", "ArabicSegmenter")}
    \cup (IF "chinese" \in features THEN {Entry("Cj", "Cmn", "ChineseSegmenter")} ELSE {})
    \cup (IF "japanese" \in features THEN {Entry("Cj", "Jpn", "JapaneseSegmenter")} ELSE {})
    \cup (IF "korean" \in features THEN {Entry("Hangul", "Kor", "KoreanSegmenter")} ELSE {})
    \cup (IF "thai" \in features THEN {Entry("Thai", "Tha", "ThaiSegmenter")} ELSE {})

DEFAULT_SEGMENTER == "LatinSegmenter"

\* HashMap::get
SEGMENTERS_get(key) ==
    IF \E e \in SEGMENTERS : e.key = key
    THEN Some((CHOOSE e \in SEGMENTERS : e.key = key).value)
    ELSE None

\* text.detect(allow_list): a detector that has classified nothing yet
StrDetection_new(text) == [inner |-> text, language |-> None]

\* StrDetection::script: the script of the first character that has one
StrDetection_script(detector) ==
    LET ks == {k \in 1..Len(detector.inner) : ScriptOf(detector.inner[k]) # "Other"}
    IN  IF ks = {} THEN "Other"
        ELSE ScriptOf(detector.inner[CHOOSE k \in ks : \A j \in ks : k <= j])

\* StrDetection::language: runs the language classifier and keeps its answer
StrDetection_language(detector) ==
    [detector |-> [detector EXCEPT !.language = Some(whatlang)], language |-> whatlang]

\* segmenter() with the language detected before the entries are counted
segmenter_eager_language(detector) ==
    LET detected_script == StrDetection_script(detector)
        filtered_segmenters == {e \in SEGMENTERS : e.key[1] = detected_script}
        l == StrDetection_language(detector)
        byLang == SEGMENTERS_get(<<detected_script, l.language>>)
        byScript == SEGMENTERS_get(<<detected_script, "Other">>)
    IN  IF filtered_segmenters = {}
        THEN [segmenter |-> DEFAULT_SEGMENTER, detector |-> l.detector]
        ELSE IF Cardinality(filtered_segmenters) = 1
        THEN [segmenter |-> (CHOOSE e \in filtered_segmenters : TRUE).value,
              detector |-> l.detector]
        ELSE [segmenter |-> IF byLang # None THEN byLang[1]
                            ELSE IF byScript # None THEN byScript[1]
                            ELSE DEFAULT_SEGMENTER,
              detector |-> l.detector]

\* segmenter() taking the first entry of the script whatever the language
segmenter_first_match(detector) ==
    LET detected_script == StrDetection_script(detector)
        filtered_segmenters == {e \in SEGMENTERS : e.key[1] = detected_script}
    IN  IF filtered_segmenters = {}
        THEN [segmenter |-> DEFAULT_SEGMENTER, detector |-> detector]
        ELSE [segmenter |-> (CHOOSE e \in filtered_segmenters : TRUE).value,
              detector |-> IF Cardinality(filtered_segmenters) = 1 THEN detector
                           ELSE StrDetection_language(detector).detector]

\* segmenter() without the default for a script that has no entry
segmenter_no_default(detector) ==
    LET detected_script == StrDetection_script(detector)
        filtered_segmenters == {e \in SEGMENTERS : e.key[1] = detected_script}
    IN  IF filtered_segmenters = {}
        THEN [segmenter |-> "None", detector |-> detector]
        ELSE IF Cardinality(filtered_segmenters) = 1
        THEN [segmenter |-> (CHOOSE e \in filtered_segmenters : TRUE).value,
              detector |-> detector]
        ELSE LET l == StrDetection_language(detector)
                 byLang == SEGMENTERS_get(<<detected_script, l.language>>)
                 byScript == SEGMENTERS_get(<<detected_script, "Other">>)
             IN  [segmenter |-> IF byLang # None THEN byLang[1]
                                ELSE IF byScript # None THEN byScript[1]
                                ELSE DEFAULT_SEGMENTER,
                  detector |-> l.detector]

\* segmenter() falling back, on a language miss, to an entry of the script
segmenter_script_fallback(detector) ==
    LET detected_script == StrDetection_script(detector)
        filtered_segmenters == {e \in SEGMENTERS : e.key[1] = detected_script}
    IN  IF filtered_segmenters = {}
        THEN [segmenter |-> DEFAULT_SEGMENTER, detector |-> detector]
        ELSE IF Cardinality(filtered_segmenters) = 1
        THEN [segmenter |-> (CHOOSE e \in filtered_segmenters : TRUE).value,
              detector |-> detector]
        ELSE LET l == StrDetection_language(detector)
                 byLang == SEGMENTERS_get(<<detected_script, l.language>>)
             IN  [segmenter |-> IF byLang # None THEN byLang[1]
                                ELSE (CHOOSE e \in filtered_segmenters : TRUE).value,
                  detector |-> l.detector]

\* segmenter(detector): the segmenter to apply, and the detector as the call leaves it
segmenter(detector) ==
    LET detected_script == StrDetection_script(detector)
        filtered_segmenters == {e \in SEGMENTERS : e.key[1] = detected_script}
    IN  IF filtered_segmenters = {}
        THEN [segmenter |-> DEFAULT_SEGMENTER, detector |-> detector]
        ELSE IF Cardinality(filtered_segmenters) = 1
        THEN [segmenter |-> (CHOOSE e \in filtered_segmenters : TRUE).value,
              detector |-> detector]
        ELSE LET l == StrDetection_language(detector)
                 byLang == SEGMENTERS_get(<<detected_script, l.language>>)
                 byScript == SEGMENTERS_get(<<detected_script, "Other">>)
             IN  [segmenter |-> IF byLang # None THEN byLang[1]
                                ELSE IF byScript # None THEN byScript[1]
                                ELSE DEFAULT_SEGMENTER,
                  detector |-> l.detector]

\* segmenter() taking the first entry the iteration meets for the script
\* when several are registered
segmenter_in_order_takes_first(detector, order) ==
    LET detected_script == StrDetection_script(detector)
        filtered_segmenters == SelectSeq(order, LAMBDA e : e.key[1] = detected_script)
    IN  IF filtered_segmenters = <<>>
        THEN [segmenter |-> DEFAULT_SEGMENTER, detector |-> detector]
        ELSE [segmenter |-> filtered_segmenters[1].value, detector |-> detector]

\* segmenter(detector) with the entries visited in the given order, the
\* sequence SEGMENTERS.iter() yields: the first two entries of the script
\* are taken off the filtered iterator and matched
segmenter_in_order(detector, order) ==
    LET detected_script == StrDetection_script(detector)
        filtered_segmenters == SelectSeq(order, LAMBDA e : e.key[1] = detected_script)
        first == IF Len(filtered_segmenters) >= 1 THEN Some(filtered_segmenters[1]) ELSE None
        second == IF Len(filtered_segmenters) >= 2 THEN Some(filtered_segmenters[2]) ELSE None
    IN  IF first = None /\ second = None
        THEN [segmenter |-> DEFAULT_SEGMENTER, detector |-> detector]
        ELSE IF first # None /\ second = None
        THEN [segmenter |-> first[1].value, detector |-> detector]
        ELSE LET l == StrDetection_language(detector)
                 byLang == SEGMENTERS_get(<<detected_script, l.language>>)
                 byScript == SEGMENTERS_get(<<detected_script, "Other">>)
             IN  [segmenter |-> IF byLang # None THEN byLang[1]
                                ELSE IF byScript # None THEN byScript[1]
                                ELSE DEFAULT_SEGMENTER,
                  detector |-> l.detector]

(***************************************************************************)
(* The separator automaton (aho_corasick, MatchKind::LeftmostLongest).     *)
(***************************************************************************)
\* separators::DEFAULT_SEPARATORS
DEFAULT_SEPARATORS == {<<" ">>, <<",">>, <<",", " ">>, <<"-">>, <<"_">>}

\* DEFAULT_SEPARATOR_AHO: an automaton is the set of its patterns
DEFAULT_SEPARATOR_AHO == DEFAULT_SEPARATORS

\* the patterns of aho that occur in text at character index k (0-based)
PatternsAt(aho, text, k) == {p \in aho : StartsWith(SubSeq(text, k + 1, Len(text)), p)}

\* AhoCorasick::find_iter(text)
FindIter_new(aho, text) == [aho |-> aho, haystack |-> text, at |-> 0]

\* FindIter::next taking the shortest of the patterns matching at the
\* leftmost start
FindIter_next_shortest(self) ==
    LET text == self.haystack
        hits == {k \in CharIdx(text, self.at)..(Len(text) - 1) : PatternsAt(self.aho, text, k) # {}}
    IN  IF hits = {} THEN [self |-> self, m |-> None]
        ELSE LET k == CHOOSE x \in hits : \A y \in hits : x <= y
                 lens == {Len(p) : p \in PatternsAt(self.aho, text, k)}
                 n == CHOOSE x \in lens : \A y \in lens : x <= y
                 m == [start |-> ByteOff(text, k), end |-> ByteOff(text, k + n)]
             IN  [self |-> [self EXCEPT !.at = m.end], m |-> Some(m)]

\* FindIter::next: the leftmost match starting at or after `at`, the longest
\* of the patterns matching there; the search resumes at its end
FindIter_next(self) ==
    LET text == self.haystack
        hits == {k \in CharIdx(text, self.at)..(Len(text) - 1) : PatternsAt(self.aho, text, k) # {}}
    IN  IF hits = {} THEN [self |-> self, m |-> None]
        ELSE LET k == CHOOSE x \in hits : \A y \in hits : x <= y
                 lens == {Len(p) : p \in PatternsAt(self.aho, text, k)}
                 n == CHOOSE x \in lens : \A y \in lens : y <= x
                 m == [start |-> ByteOff(text, k), end |-> ByteOff(text, k + n)]
             IN  [self |-> [self EXCEPT !.at = m.end], m |-> Some(m)]

(***************************************************************************)
(* AhoSegmentedStrIter (mod.rs).                                           *)
(***************************************************************************)
Left(n) == [either |-> "Left", left |-> n]
Right(m) == [either |-> "Right", right |-> m]

AhoSegmentedStrIter_new(text, aho) ==
    [aho_iter |-> FindIter_new(aho, text), prev |-> Left(0), text |-> text]

\* the Left arm of next(), f being what aho_iter.next() gave
AhoLeft(self, f) ==
    IF f.m # None
    THEN [self |-> [self EXCEPT !.aho_iter = f.self, !.prev = Right(f.m[1])],
          match_type |-> "Interleave",
          start |-> self.prev.left, end |-> f.m[1].start]
    ELSE [self |-> [self EXCEPT !.aho_iter = f.self, !.prev = Left(ByteLen(self.text))],
          match_type |-> "Interleave",
          start |-> self.prev.left, end |-> ByteLen(self.text)]

\* what one pass of next() yields before the test on start < end
AhoRange(self) ==
    IF self.prev.either = "Left"
    THEN AhoLeft(self, FindIter_next(self.aho_iter))
    ELSE [self |-> [self EXCEPT !.prev = Left(self.prev.right.end)],
          match_type |-> "Match",
          start |-> self.prev.right.start, end |-> self.prev.right.end]

RECURSIVE AhoSegmentedStrIter_next(_)

\* the tail of next() ending the iteration at the first empty range
AhoYield_stop_at_empty(self, r) ==
    IF r.start < r.end
    THEN [self |-> r.self,
          item |-> Some([s |-> Slice(self.text, r.start, r.end), match_type |-> r.match_type])]
    ELSE [self |-> r.self, item |-> None]

\* the tail of next() yielding an empty range that is not at the end of the
\* text
AhoYield_yields_empty(self, r) ==
    IF r.start < r.end \/ r.end < ByteLen(self.text)
    THEN [self |-> r.self,
          item |-> Some([s |-> Slice(self.text, r.start, r.end), match_type |-> r.match_type])]
    ELSE [self |-> r.self, item |-> None]

\* the tail of next(): the test on the range r of the pass
AhoYield(self, r) ==
    IF r.start < r.end
    THEN [self |-> r.self,
          item |-> Some([s |-> Slice(self.text, r.start, r.end), match_type |-> r.match_type])]
    ELSE IF r.end < ByteLen(self.text)
    THEN AhoSegmentedStrIter_next(r.self)
    ELSE [self |-> r.self, item |-> None]

\* AhoSegmentedStrIter::next: the iterator after the call, and the item
AhoSegmentedStrIter_next(self) == AhoYield(self, AhoRange(self))

(***************************************************************************)
(* The script-run iterator: linear_group_by_key over the closure of        *)
(* SegmentedStrIter::new.                                                  *)
(***************************************************************************)
\* the closure answering each character's own script, Other included
GroupKey_own_script(cur, c) == ScriptOf(c)

\* the closure: its answer for c when current_script is cur (also its new state)
GroupKey(cur, c) ==
    IF ScriptOf(c) # "Other" /\ ScriptOf(c) # cur THEN ScriptOf(c) ELSE cur

\* the scan of adjacent pairs from pair (s[i], s[i+1]); the key of each
\* character of the pair is asked in turn
RECURSIVE GroupScan(_, _, _)
GroupScan(s, i, cur) ==
    IF i >= Len(s) THEN [cut |-> Len(s), current_script |-> cur]
    ELSE LET ka == GroupKey(cur, s[i])
             kb == GroupKey(ka, s[i + 1])
         IN  IF ka # kb THEN [cut |-> i, current_script |-> kb]
             ELSE GroupScan(s, i + 1, kb)

\* LinearStrGroupByKey::next leaving out the character after the cut
LinearStrGroupByKey_next_drops_char(self) ==
    IF self.rest = <<>> THEN [self |-> self, item |-> None]
    ELSE LET g == GroupScan(self.rest, 1, self.current_script)
         IN  [self |-> [rest |-> SubSeq(self.rest, g.cut + 2, Len(self.rest)),
                         current_script |-> g.current_script],
              item |-> Some(SubSeq(self.rest, 1, g.cut))]

\* LinearStrGroupByKey::next
LinearStrGroupByKey_next(self) ==
    IF self.rest = <<>> THEN [self |-> self, item |-> None]
    ELSE LET g == GroupScan(self.rest, 1, self.current_script)
         IN  [self |-> [rest |-> SubSeq(self.rest, g.cut + 1, Len(self.rest)),
                         current_script |-> g.current_script],
              item |-> Some(SubSeq(self.rest, 1, g.cut))]

(***************************************************************************)
(* SegmentedStrIter (mod.rs).                                              *)
(***************************************************************************)
\* the automaton of a run: options.aho.as_ref().unwrap_or(&DEFAULT_SEPARATOR_AHO)
OptionsAho == IF options_aho # None THEN options_aho[1] ELSE DEFAULT_SEPARATOR_AHO

SegmentedStrIter_new(text) ==
    [inner |-> [rest |-> text, current_script |-> "Other"],
     current |-> <<>>,
     aho_iter |-> None,
     segmenter |-> DEFAULT_SEGMENTER,
     script |-> "Other",
     language |-> None,
     langCalls |-> 0,
     segCalls |-> <<>>]

\* the next run opened with the segmenter left as it was
OpenRun_keeps_segmenter(self, text) ==
    LET detector == StrDetection_new(text)
        d == segmenter(detector)
    IN  [self EXCEPT !.script = StrDetection_script(d.detector),
                     !.language = d.detector.language,
                     !.aho_iter = Some(AhoSegmentedStrIter_new(text, OptionsAho)),
                     !.langCalls = IF d.detector.language # None THEN @ + 1 ELSE @]

\* the next run opened with script and language left as they were
OpenRun_keeps_script(self, text) ==
    LET detector == StrDetection_new(text)
        d == segmenter(detector)
    IN  [self EXCEPT !.segmenter = d.segmenter,
                     !.aho_iter = Some(AhoSegmentedStrIter_new(text, OptionsAho)),
                     !.langCalls = IF d.detector.language # None THEN @ + 1 ELSE @]

\* the None arm: the next run is opened
OpenRun(self, text) ==
    LET detector == StrDetection_new(text)
        d == segmenter(detector)
    IN  [self EXCEPT !.segmenter = d.segmenter,
                     !.script = StrDetection_script(d.detector),
                     !.language = d.detector.language,
                     !.aho_iter = Some(AhoSegmentedStrIter_new(text, OptionsAho)),
                     !.langCalls = IF d.detector.language # None THEN @ + 1 ELSE @]

\* the Option<AhoSegmentedStrIter> left by a call n of its next()
AhoIterSome(n) == [self |-> Some(n.self), item |-> n.item]

\* self.aho_iter.as_mut().and_then(|aho_iter| aho_iter.next())
AhoIterNext(opt) ==
    IF opt = None THEN [self |-> None, item |-> None]
    ELSE AhoIterSome(AhoSegmentedStrIter_next(opt[1]))

RECURSIVE SegmentedStrIter_next(_)

\* the None arm starting over on the text once the runs are exhausted
StrIterRun_starts_over(self, g) ==
    IF g.item = None
    THEN [self |-> [self EXCEPT !.inner = SegmentedStrIter_new(original).inner], item |-> None]
    ELSE SegmentedStrIter_next(OpenRun([self EXCEPT !.inner = g.self], g.item[1]))

\* the None arm of the inner match, g being what self.inner.next() gave
StrIterRun(self, g) ==
    IF g.item = None THEN [self |-> [self EXCEPT !.inner = g.self], item |-> None]
    ELSE SegmentedStrIter_next(OpenRun([self EXCEPT !.inner = g.self], g.item[1]))

\* the arms of the inner match with a separator match skipped, not yielded
StrIterArms_skip_match(self, a) ==
    IF a.item # None /\ a.item[1].match_type = "Match"
    THEN SegmentedStrIter_next([self EXCEPT !.aho_iter = a.self])
    ELSE IF a.item # None
    THEN SegmentedStrIter_next(
             [self EXCEPT !.aho_iter = a.self,
                          !.current = Segmenter_segment_str(self.segmenter, a.item[1].s),
                          !.segCalls = Append(@, [segmenter |-> self.segmenter,
                                                  s |-> a.item[1].s])])
    ELSE StrIterRun([self EXCEPT !.aho_iter = a.self], LinearStrGroupByKey_next(self.inner))

\* the arms of the inner match with a separator match handed to the segmenter
StrIterArms_segment_match(self, a) ==
    IF a.item # None
    THEN SegmentedStrIter_next(
             [self EXCEPT !.aho_iter = a.self,
                          !.current = Segmenter_segment_str(self.segmenter, a.item[1].s),
                          !.segCalls = Append(@, [segmenter |-> self.segmenter,
                                                  s |-> a.item[1].s])])
    ELSE StrIterRun([self EXCEPT !.aho_iter = a.self], LinearStrGroupByKey_next(self.inner))

\* the arms of the inner match, a being what the separator splitter gave
StrIterArms(self, a) ==
    IF a.item # None /\ a.item[1].match_type = "Match"
    THEN [self |-> [self EXCEPT !.aho_iter = a.self], item |-> Some(Simple(a.item[1].s))]
    ELSE IF a.item # None
    THEN SegmentedStrIter_next(
             [self EXCEPT !.aho_iter = a.self,
                          !.current = Segmenter_segment_str(self.segmenter, a.item[1].s),
                          !.segCalls = Append(@, [segmenter |-> self.segmenter,
                                                  s |-> a.item[1].s])])
    ELSE StrIterRun([self EXCEPT !.aho_iter = a.self], LinearStrGroupByKey_next(self.inner))

\* SegmentedStrIter::next: the iterator after the call, and the item
SegmentedStrIter_next(self) ==
    IF self.current # <<>>
    THEN [self |-> [self EXCEPT !.current = Tail(@)], item |-> Some(Head(self.current))]
    ELSE StrIterArms(self, AhoIterNext(self.aho_iter))

(***************************************************************************)
(* SegmentedTokenIter (mod.rs).                                            *)
(***************************************************************************)
\* the fields of SegmentedStrIter, as one value
StrIter ==
    [inner |-> inner, current |-> current, aho_iter |-> aho_iter,
     segmenter |-> self_segmenter, script |-> script, language |-> language,
     langCalls |-> langCalls, segCalls |-> segCalls]

\* the Token of a WithPosition sub-span given the sub-span's own offsets
TokenOf_relative_offsets(token_item, inner_script, inner_language) ==
    IF token_item.kind = "Simple"
    THEN [lemma |-> token_item.text, script |-> inner_script, language |-> inner_language,
          char_start |-> char_index,
          char_end |-> char_index + CharCount(token_item.text),
          byte_start |-> byte_index,
          byte_end |-> byte_index + ByteLen(token_item.text)]
    ELSE [lemma |-> token_item.text, script |-> inner_script, language |-> inner_language,
          char_start |-> token_item.char_start,
          char_end |-> token_item.char_end,
          byte_start |-> token_item.byte_start,
          byte_end |-> token_item.byte_end]

\* the Token next() builds from a TokenItem; script and language are read
\* from the inner iterator after its next() has run
TokenOf(token_item, inner_script, inner_language) ==
    IF token_item.kind = "Simple"
    THEN [lemma |-> token_item.text, script |-> inner_script, language |-> inner_language,
          char_start |-> char_index,
          char_end |-> char_index + CharCount(token_item.text),
          byte_start |-> byte_index,
          byte_end |-> byte_index + ByteLen(token_item.text)]
    ELSE [lemma |-> token_item.text, script |-> inner_script, language |-> inner_language,
          char_start |-> char_index + token_item.char_start,
          char_end |-> char_index + token_item.char_end,
          byte_start |-> byte_index + token_item.byte_start,
          byte_end |-> byte_index + token_item.byte_end]

\* the char cursor moved by the byte length of a Simple sub-span
CharAdvance_byte_length(token_item) ==
    IF token_item.kind = "Simple" THEN ByteLen(token_item.text)
    ELSE IF token_item.is_last_token THEN token_item.char_end
    ELSE 0

\* how far next() moves the char cursor for a TokenItem
CharAdvance(token_item) ==
    IF token_item.kind = "Simple" THEN CharCount(token_item.text)
    ELSE IF token_item.is_last_token THEN token_item.char_end
    ELSE 0

\* the byte cursor left where it is by a Simple sub-span
ByteAdvance_simple_stays(token_item) ==
    IF token_item.kind = "Simple" THEN 0
    ELSE IF token_item.is_last_token THEN token_item.byte_end
    ELSE 0

\* how far next() moves the byte cursor for a TokenItem
ByteAdvance(token_item) ==
    IF token_item.kind = "Simple" THEN ByteLen(token_item.text)
    ELSE IF token_item.is_last_token THEN token_item.byte_end
    ELSE 0

\* SegmentedTokenIter::next
SegmentedTokenIter_next ==
    /\ call.fn = "segment"
    /\ \E r \in {SegmentedStrIter_next(StrIter)} :
           /\ inner' = r.self.inner
           /\ current' = r.self.current
           /\ aho_iter' = r.self.aho_iter
           /\ self_segmenter' = r.self.segmenter
           /\ script' = r.self.script
           /\ language' = r.self.language
           /\ langCalls' = r.self.langCalls
           /\ segCalls' = r.self.segCalls
           /\ IF r.item = None
              THEN /\ done' = TRUE
                   /\ UNCHANGED <<char_index, byte_index, tokens, items>>
              ELSE /\ char_index' = char_index + CharAdvance(r.item[1])
                   /\ byte_index' = byte_index + ByteAdvance(r.item[1])
                   /\ tokens' = Append(tokens, TokenOf(r.item[1], r.self.script, r.self.language))
                   /\ items' = Append(items, r.item[1])
                   /\ UNCHANGED done
    /\ UNCHANGED <<env, original, options_aho, call, ret>>

(***************************************************************************)
(* segment(): the pipeline on a drawn input.                               *)
(***************************************************************************)
\* the builds the pipeline is run under
Builds == {AllFeatures, AllFeatures \ {"japanese"}, {}}

\* the separator automata a caller passes in SegmenterOption
CallerAhos == {{<<",">>}}

LastFlags == [final : BOOLEAN, earlier : BOOLEAN]

NoFlags == [final |-> FALSE, earlier |-> FALSE]

HasScript(text, s) == \E k \in 1..Len(text) : ScriptOf(text[k]) = s

\* the segmenters a Cj run of the text can be given
CjSegmenters(text) ==
    IF ~HasScript(text, "Cj") THEN {}
    ELSE {segmenter(StrDetection_new(<<"ji">>)).segmenter}

\* the collaborators' answers that the text can bring into play
EnvFor(text) ==
    /\ whatlang \in IF HasScript(text, "Cj") /\ {"chinese", "japanese"} \subseteq features
                    THEN {"Cmn", "Jpn", "Other"} ELSE {"Other"}
    /\ lindera \in IF \/ HasScript(text, "Hangul") /\ "korean" \in features
                      \/ "JapaneseSegmenter" \in CjSegmenters(text)
                   THEN LinderaModes ELSE {"whole"}
    /\ lastFlags \in IF "ChineseSegmenter" \in CjSegmenters(text)
                     THEN LastFlags ELSE {NoFlags}

\* the state of the iterator that text.segment() returns
IterInit(text) ==
    LET it == SegmentedStrIter_new(text)
    IN  /\ original = text
        /\ inner = it.inner
        /\ current = it.current
        /\ aho_iter = it.aho_iter
        /\ self_segmenter = it.segmenter
        /\ script = it.script
        /\ language = it.language
        /\ langCalls = it.langCalls
        /\ segCalls = it.segCalls
        /\ char_index = 0
        /\ byte_index = 0
        /\ tokens = <<>>
        /\ items = <<>>
        /\ done = FALSE

Init ==
    /\ features \in Builds
    /\ \E text \in TextsUpTo(PipeChars, MaxLen) : IterInit(text) /\ EnvFor(text)
    /\ options_aho \in {None} \cup {Some(a) : a \in CallerAhos}
    /\ call = [fn |-> "segment"]
    /\ ret = None
    /\ StaticsIdle

Next == SegmentedTokenIter_next

Spec == Init /\ [][Next]_vars

(***************************************************************************)
(* One segmenter on one span: Segmenter::segment_str as a function.        *)
(***************************************************************************)
\* the characters of the spans a segmenter is given
SegmenterChars(self) ==
    CASE self = "LatinSegmenter" -> LatinChars
      [] self \in {"ChineseSegmenter", "JapaneseSegmenter"} -> CjChars
      [] self = "KoreanSegmenter" -> HangulChars
      [] self = "ThaiSegmenter" -> ThaiChars
      [] self = "ArabicSegmenter" -> ArabicChars

\* the segmenters of the build: the registry's and the default one
Registered == {e.value : e \in SEGMENTERS} \cup {DEFAULT_SEGMENTER}

SegBuilds == {AllFeatures, {}}

SegInit ==
    /\ features \in SegBuilds
    /\ \E self \in Registered :
         /\ call \in {[fn |-> "segment_str", self |-> self, s |-> s] :
                         s \in TextsUpTo(SegmenterChars(self), MaxSpan) \ {<<>>}}
         /\ lindera \in IF self \in {"KoreanSegmenter", "JapaneseSegmenter"}
                        THEN LinderaModes ELSE {"whole"}
         /\ lastFlags \in IF self = "ChineseSegmenter" THEN LastFlags ELSE {NoFlags}
    /\ whatlang = "Other"
    /\ options_aho = None
    /\ IterInit(<<>>)
    /\ ret = None
    /\ StaticsIdle

\* the call self.segment_str(s), its sub-spans collected
segment_str ==
    /\ call.fn = "segment_str"
    /\ ret = None
    /\ ret' = Some(Segmenter_segment_str(call.self, call.s))
    /\ UNCHANGED <<env, iter, call>>

SegSpec == SegInit /\ [][segment_str]_vars

(***************************************************************************)
(* The separator splitter on one run text and one automaton.               *)
(***************************************************************************)
AhoChars == {"a", " ", ",", "lam"}

\* automata: the default one, ones a caller passes
Automata ==
    {DEFAULT_SEPARATOR_AHO, {}, {<<",">>}, {<<"a">>, <<"a", " ">>}, {<<"lam">>, <<" ", ",">>}}

AhoInit ==
    /\ call \in {[fn |-> "AhoSegmentedStrIter", text |-> text, aho |-> aho] :
                    text \in TextsUpTo(AhoChars, MaxSpan), aho \in Automata}
    /\ features = AllFeatures
    /\ whatlang = "Other"
    /\ lindera = "whole"
    /\ lastFlags = NoFlags
    /\ options_aho = Some(call.aho)
    /\ original = call.text
    /\ inner = [rest |-> <<>>, current_script |-> "Other"]
    /\ current = <<>>
    /\ aho_iter = Some(AhoSegmentedStrIter_new(call.text, call.aho))
    /\ self_segmenter = DEFAULT_SEGMENTER
    /\ script = "Other"
    /\ language = None
    /\ langCalls = 0
    /\ segCalls = <<>>
    /\ char_index = 0
    /\ byte_index = 0
    /\ tokens = <<>>
    /\ items = <<>>
    /\ done = FALSE
    /\ ret = None
    /\ StaticsIdle

\* one call of AhoSegmentedStrIter::next by the caller
AhoSegmentedStrIter_next_call ==
    /\ call.fn = "AhoSegmentedStrIter"
    /\ \E r \in {AhoSegmentedStrIter_next(aho_iter[1])} :
           /\ aho_iter' = Some(r.self)
           /\ IF r.item = None
              THEN done' = TRUE /\ UNCHANGED items
              ELSE items' = Append(items, r.item[1]) /\ UNCHANGED done
    /\ UNCHANGED <<env, original, options_aho, inner, current, self_segmenter, script, language,
                   char_index, byte_index, tokens, langCalls, segCalls, call, ret>>

AhoSpec == AhoInit /\ [][AhoSegmentedStrIter_next_call]_vars

(***************************************************************************)
(* Dispatch on one run text: segmenter(detector) as a function.            *)
(***************************************************************************)
\* one character of each script
DispatchChars == {"a", " ", "alef", "ko_kai", "han", "ji"}

\* longest run text dispatch is applied to
MaxRun == 2

DispatchInit ==
    /\ features \in SUBSET AllFeatures
    /\ whatlang \in Languages
    /\ call \in {[fn |-> "segmenter", text |-> text] :
                    text \in TextsUpTo(DispatchChars, MaxRun) \ {<<>>}}
    /\ lindera = "whole"
    /\ lastFlags = NoFlags
    /\ options_aho = None
    /\ IterInit(<<>>)
    /\ ret = None
    /\ StaticsIdle

\* the call segmenter(&mut detector) for a run
segmenter_call ==
    /\ call.fn = "segmenter"
    /\ ret = None
    /\ ret' = Some(segmenter(StrDetection_new(call.text)))
    /\ UNCHANGED <<env, iter, call>>

DispatchSpec == DispatchInit /\ [][segmenter_call]_vars

(***************************************************************************)
(* The script-run splitter on one text: the iterator SegmentedStrIter::new *)
(* builds, called to its end.                                              *)
(***************************************************************************)
RunChars == {"a", " ", "alef", "ji"}

\* longest text the script-run splitter is run on, in characters
MaxText == 4

RunInit ==
    /\ \E text \in TextsUpTo(RunChars, MaxText) :
          /\ IterInit(text)
          /\ call = [fn |-> "linear_group_by_key", text |-> text]
    /\ features = AllFeatures
    /\ whatlang = "Other"
    /\ lindera = "whole"
    /\ lastFlags = NoFlags
    /\ options_aho = None
    /\ ret = None
    /\ StaticsIdle

\* one call of the script-run iterator's next() by the composer
LinearStrGroupByKey_next_call ==
    /\ call.fn = "linear_group_by_key"
    /\ \E g \in {LinearStrGroupByKey_next(inner)} :
           /\ inner' = g.self
           /\ IF g.item = None
              THEN done' = TRUE /\ UNCHANGED items
              ELSE items' = Append(items, g.item[1]) /\ UNCHANGED done
    /\ UNCHANGED <<env, original, options_aho, current, aho_iter, self_segmenter, script,
                   language, char_index, byte_index, tokens, langCalls, segCalls, call, ret>>

RunSpec == RunInit /\ [][LinearStrGroupByKey_next_call]_vars

(***************************************************************************)
(* The composer on texts of Latin, Arabic and Cj runs with separators.     *)
(***************************************************************************)
ComposerChars == {"a", " ", ",", "alef", "lam", "ji"}

\* longest text the composer is run on, in characters
MaxCompose == 3

ComposerInit ==
    /\ features \in Builds
    /\ \E text \in TextsUpTo(ComposerChars, MaxCompose) : IterInit(text) /\ EnvFor(text)
    /\ options_aho \in {None} \cup {Some(a) : a \in CallerAhos}
    /\ call = [fn |-> "segment"]
    /\ ret = None
    /\ StaticsIdle

ComposerSpec == ComposerInit /\ [][SegmentedTokenIter_next]_vars

(***************************************************************************)
(* The dictionary segmenter on one span and one dictionary.                *)
(***************************************************************************)
\* the dictionary {"ab", "abc", "c"} in Thai letters, "abcd" being
\* ko_kai sara_a kho_khai ngo_ngu
AbcWords == {<<"ko_kai", "sara_a">>, <<"ko_kai", "sara_a", "kho_khai">>, <<"kho_khai">>}

AbcdText == <<"ko_kai", "sara_a", "kho_khai", "ngo_ngu">>

\* the dictionaries an FstSegmenter is built over
FstDicts == {ThaiWords, AbcWords, {}}

\* longest span given to the dictionary segmenter, in characters
MaxWord == 4

FstInit ==
    /\ call \in {[fn |-> "FstSegmenter", words |-> words, s |-> s] :
                    words \in FstDicts, s \in TextsUpTo(ThaiChars, MaxWord)}
    /\ features = AllFeatures
    /\ whatlang = "Other"
    /\ lindera = "whole"
    /\ lastFlags = NoFlags
    /\ options_aho = None
    /\ IterInit(<<>>)
    /\ ret = None
    /\ StaticsIdle

\* the call FstSegmenter::new(words).segment_str(s), its pieces collected
FstSegmenter_segment_str_call ==
    /\ call.fn = "FstSegmenter"
    /\ ret = None
    /\ ret' = Some(FstSegmenter_segment_str(call.words, call.s))
    /\ UNCHANGED <<env, iter, call>>

FstSpec == FstInit /\ [][FstSegmenter_segment_str_call]_vars

(***************************************************************************)
(* segment() on Latin texts with separators, with and without a caller's   *)
(* automaton that matches nothing.                                         *)
(***************************************************************************)
LatinTextChars == LatinChars \cup {" "} \cup JoinerChars

\* longest Latin text drawn, in characters
MaxLatin == 4

\* "camelCase kebab-case snake_case", a word of the test's text shortened to two letters
CamelText ==
    <<"a", "a", "B", "a", " ", "a", "a", "-", "a", "a", " ", "a", "a", "_", "a", "a">>

\* "camel", "Case", " ", "kebab", "-", "case", " ", "snake", "_", "case"
CamelSegmented ==
    <<(<<"a", "a">>), (<<"B", "a">>), (<<" ">>), (<<"a", "a">>), (<<"-">>), (<<"a", "a">>),
      (<<" ">>), (<<"a", "a">>), (<<"_">>), (<<"a", "a">>)>>

LatinInit ==
    /\ features \in {AllFeatures, AllFeatures \ {"latin-camelcase"}}
    /\ \E text \in TextsUpTo(LatinTextChars, MaxLatin) \cup {CamelText} : IterInit(text)
    /\ options_aho \in {None, Some({})}
    /\ whatlang = "Other"
    /\ lindera = "whole"
    /\ lastFlags = NoFlags
    /\ call = [fn |-> "segment"]
    /\ ret = None
    /\ StaticsIdle

LatinSpec == LatinInit /\ [][SegmentedTokenIter_next]_vars

(***************************************************************************)
(* First use of the statics by several threads.                            *)
(***************************************************************************)
StaticsInit ==
    /\ resources \in [Resources -> {"ok", "broken"}]
    /\ lazy = [c \in Cells |-> Uninit]
    /\ threads = [t \in Threads |-> [pc |-> "idle", cell |-> "SEGMENTERS"]]
    /\ observed = [t \in Threads |-> [c \in Cells |-> None]]
    /\ call = [fn |-> "statics"]
    /\ features = AllFeatures
    /\ whatlang = "Other"
    /\ lindera = "whole"
    /\ lastFlags = NoFlags
    /\ options_aho = None
    /\ IterInit(<<>>)
    /\ ret = None

StaticsNext ==
    \/ \E t \in Threads, c \in Cells : Lazy_force(t, c)
    \/ \E t \in Threads : Lazy_init(t)

StaticsSpec == StaticsInit /\ [][StaticsNext]_vars

(***************************************************************************)
(* Properties.                                                             *)
(***************************************************************************)
Lemmas == [i \in 1..Len(tokens) |-> tokens[i].lemma]

AllSimple == \A i \in 1..Len(items) : items[i].kind = "Simple"

\* C1 (as claimed): once segment() is exhausted, the lemmas of its tokens,
\* concatenated in order, are the original text, whichever segmenter handled
\* each run.
C1_Losslessness == done => Concat(Lemmas) = original

\* C1 (amended): once segment() is exhausted on an input none of whose runs
\* was handled by ChineseSegmenter (every token comes from a Simple sub-span),
\* the lemmas concatenated in order are the original text.
C1_LosslessSimple == (done /\ AllSimple) => Concat(Lemmas) = original

\* an exhausted input of three characters with an Arabic article split and a separator
C1_Witness ==
    /\ done
    /\ AllSimple
    /\ Len(original) = MaxLen
    /\ Len(tokens) >= 3
    /\ \E i \in 1..Len(tokens) : tokens[i].script = "Arabic" /\ tokens[i].lemma \in ArticlePrefixes

C3_Offsets ==
    \A i \in 1..Len(tokens) :
        /\ tokens[i].byte_end - tokens[i].byte_start = ByteLen(tokens[i].lemma)
        /\ tokens[i].char_end - tokens[i].char_start = CharCount(tokens[i].lemma)
        /\ tokens[i].char_end <= Len(original)
        /\ ByteOff(original, tokens[i].char_start) = tokens[i].byte_start
        /\ ByteOff(original, tokens[i].char_end) = tokens[i].byte_end

\* the part of C3 that holds whatever is_last_token is: the widths
C3_Widths ==
    \A i \in 1..Len(tokens) :
        /\ tokens[i].byte_end - tokens[i].byte_start = ByteLen(tokens[i].lemma)
        /\ tokens[i].char_end - tokens[i].char_start = CharCount(tokens[i].lemma)

\* C3 holds when the final sub-span of every Chinese call, and no other, is flagged last
C3_OffsetsWhenFlagged == (lastFlags.final /\ ~lastFlags.earlier) => C3_Offsets

SegTexts == Texts(ret[1])

CoveredBy(i) == ret[1][i].byte_start .. (ret[1][i].byte_end - 1)

DetectedScript == StrDetection_script(StrDetection_new(call.text))

\* the registry entries whose key has script s
Matching(s) == {e \in SEGMENTERS : e.key[1] = s}

\* C5: when exactly one registry entry has the detected script, dispatch
\* returns that entry's segmenter and the detector's language() has not run
\* (the detector holds no language); language() has run only when more than
\* one entry has the detected script.
C5_LanguageOnlyOnMultiMatch ==
    ret # None =>
        /\ Cardinality(Matching(DetectedScript)) = 1 =>
              /\ \A e \in Matching(DetectedScript) : ret[1].segmenter = e.value
              /\ ret[1].detector.language = None
        /\ ret[1].detector.language # None => Cardinality(Matching(DetectedScript)) > 1

\* a Cj run in a build with the Chinese segmenter only
C5_Witness ==
    /\ ret # None
    /\ DetectedScript = "Cj"
    /\ Cardinality(Matching("Cj")) = 1
    /\ ret[1].segmenter = "ChineseSegmenter"
    /\ whatlang = "Jpn"

\* C6: when more than one registry entry has the detected script, dispatch
\* asks the detector for the language and returns the segmenter under
\* (script, language), else the one under (script, Other), else the default.
C6_MultiMatchTiers ==
    (ret # None /\ Cardinality(Matching(DetectedScript)) > 1) =>
        /\ ret[1].detector.language = Some(whatlang)
        /\ IF \E e \in SEGMENTERS : e.key = <<DetectedScript, whatlang>>
           THEN \A e \in SEGMENTERS : e.key = <<DetectedScript, whatlang>> => ret[1].segmenter = e.value
           ELSE IF \E e \in SEGMENTERS : e.key = <<DetectedScript, "Other">>
           THEN \A e \in SEGMENTERS : e.key = <<DetectedScript, "Other">> => ret[1].segmenter = e.value
           ELSE ret[1].segmenter = DEFAULT_SEGMENTER

\* a Cj run detected as Japanese in a build with both Cj segmenters
C6_Witness ==
    /\ ret # None
    /\ Cardinality(Matching(DetectedScript)) > 1
    /\ whatlang = "Jpn"
    /\ ret[1].segmenter = "JapaneseSegmenter"

\* C7: dispatch returns a segmenter for every detected script, the default
\* one when no registry entry has the script.
C7_DispatchTotal ==
    ret # None =>
        /\ ret[1].segmenter \in SegmenterKinds
        /\ Matching(DetectedScript) = {} => ret[1].segmenter = DEFAULT_SEGMENTER

\* a Thai run in a build without the Thai segmenter
C7_Witness ==
    /\ ret # None
    /\ DetectedScript = "Thai"
    /\ Matching("Thai") = {}
    /\ ret[1].segmenter = DEFAULT_SEGMENTER

\* the scripts with more than one language-specific registry entry
MultiLanguageScripts ==
    {s \in Scripts : Cardinality({e \in Matching(s) : e.key[2] # "Other"}) > 1}

\* a dispatch with several matches and no entry for the detected language
MultiMatchMiss ==
    /\ ret # None
    /\ Cardinality(Matching(DetectedScript)) > 1
    /\ SEGMENTERS_get(<<DetectedScript, whatlang>>) = None

\* C8 (as claimed): a script with more than one language-specific entry also
\* has an entry under (script, Other), and a multi-match dispatch whose
\* language has no entry returns that one.
C8_ScriptDefaultRegistered ==
    ret # None =>
        /\ \A s \in MultiLanguageScripts : SEGMENTERS_get(<<s, "Other">>) # None
        /\ MultiMatchMiss => Some(ret[1].segmenter) = SEGMENTERS_get(<<DetectedScript, "Other">>)

\* C8 (amended): no script with more than one language-specific entry (Cj:
\* Cmn and Jpn) has an entry under (script, Other), and a multi-match
\* dispatch whose language has no entry returns the global default segmenter.
C8_FallsToGlobalDefault ==
    /\ \A s \in MultiLanguageScripts : SEGMENTERS_get(<<s, "Other">>) = None
    /\ MultiMatchMiss => ret[1].segmenter = DEFAULT_SEGMENTER

\* a Cj run detected as neither Mandarin nor Japanese
C8_Witness ==
    /\ MultiMatchMiss
    /\ DetectedScript \in MultiLanguageScripts
    /\ ret[1].segmenter = "LatinSegmenter"

\* C9 (as claimed): a span of more than 2 characters that starts with an
\* article prefix gives its first 4 bytes and its remainder; every other span
\* gives itself as the single sub-span.
C9_ArabicRule ==
    (ret # None /\ call.self = "ArabicSegmenter") =>
        IF CharCount(call.s) > 2 /\ (\E p \in ArticlePrefixes : StartsWith(call.s, p))
        THEN SegTexts = <<Slice(call.s, 0, 4), Slice(call.s, 4, ByteLen(call.s))>>
        ELSE SegTexts = <<call.s>>

AhoTexts == [i \in 1..Len(items) |-> items[i].s]

\* C10: the items the separator splitter has yielded are tagged Match or
\* Interleave, a Match is one of the automaton's patterns, the items in order
\* are a prefix of the run text, and once the splitter is exhausted they are
\* the whole run text.
C10_SplitterLossless ==
    call.fn = "AhoSegmentedStrIter" =>
        /\ \A i \in 1..Len(items) :
              /\ items[i].match_type \in {"Match", "Interleave"}
              /\ items[i].match_type = "Match" => items[i].s \in call.aho
        /\ StartsWith(call.text, Concat(AhoTexts))
        /\ done => Concat(AhoTexts) = call.text

\* a text that starts with two adjacent separators
C10_Witness ==
    /\ call.fn = "AhoSegmentedStrIter"
    /\ done
    /\ Len(items) >= 3
    /\ items[1].match_type = "Match"
    /\ items[2].match_type = "Match"
    /\ items[Len(items)].match_type = "Interleave"

\* the runs the script-run iterator yields from its state self, in order
RECURSIVE RunsFrom(_)
RunsFrom(self) ==
    LET g == LinearStrGroupByKey_next(self)
    IN  IF g.item = None THEN <<>> ELSE <<g.item[1]>> \o RunsFrom(g.self)

\* the runs of a text
RunsOf(text) == RunsFrom(SegmentedStrIter_new(text).inner)

\* the items the separator splitter yields from its state self, in order
RECURSIVE AhoItemsFrom(_)
AhoItemsFrom(self) ==
    LET n == AhoSegmentedStrIter_next(self)
    IN  IF n.item = None THEN <<>> ELSE <<n.item[1]>> \o AhoItemsFrom(n.self)

\* the matches and gaps of a run text under an automaton
AhoItemsOf(text, aho) == AhoItemsFrom(AhoSegmentedStrIter_new(text, aho))

\* the segmenter dispatch chooses for a run
RunSegmenter(run) == segmenter(StrDetection_new(run)).segmenter

\* the gaps of a run, each with the run's segmenter, in order
RunCalls(run, aho) ==
    LET gaps == SelectSeq(AhoItemsOf(run, aho), LAMBDA m : m.match_type = "Interleave")
    IN  [i \in 1..Len(gaps) |-> [segmenter |-> RunSegmenter(run), s |-> gaps[i].s]]

\* the separator splitter over a text, flat-mapped: each match as itself,
\* each gap as what the segmenter S makes of it
SpanItems(S, text, aho) ==
    LET ms == AhoItemsOf(text, aho)
    IN  Concat([i \in 1..Len(ms) |->
                   IF ms[i].match_type = "Match" THEN <<Simple(ms[i].s)>>
                   ELSE Segmenter_segment_str(S, ms[i].s)])

\* the sub-spans of a run, under the segmenter dispatch chooses for it
RunItems(run, aho) == SpanItems(RunSegmenter(run), run, aho)

ExpectedCalls ==
    LET runs == RunsOf(original)
    IN  Concat([i \in 1..Len(runs) |-> RunCalls(runs[i], OptionsAho)])

ExpectedItems ==
    LET runs == RunsOf(original)
    IN  Concat([i \in 1..Len(runs) |-> RunItems(runs[i], OptionsAho)])

\* the composer's calls and sub-spans so far follow the sequences given
ComposerFollows(calls, its) ==
    /\ StartsWith(calls, segCalls)
    /\ StartsWith(its, items)
    /\ \A i \in 1..Len(segCalls) :
          /\ segCalls[i].s # <<>>
          /\ \A k \in 0..(Len(segCalls[i].s) - 1) : PatternsAt(OptionsAho, segCalls[i].s, k) = {}
    /\ done => (segCalls = calls /\ items = its)

\* C11: the composer hands to a segmenter the non-empty gaps of each run, in
\* order, each to the segmenter chosen for its run, and nothing else: no
\* span it hands over holds a separator match.  What it emits is, run by run
\* and in order, each match as one Simple sub-span and, in the place of each
\* gap, the sub-spans the segmenter returned for it.
C11_ComposerInterleaves == ComposerFollows(ExpectedCalls, ExpectedItems)

\* a run of a script with its own segmenter: a gap, a separator, a gap
C11_Witness ==
    /\ done
    /\ Len(segCalls) = 2
    /\ segCalls[1].segmenter # DEFAULT_SEGMENTER
    /\ Len(items) >= 3
    /\ items[2] = Simple(<<",">>)

\* C12: the runs the script-run splitter has yielded are non-empty and, in
\* order and followed by the text not yet split, are the input: they cover
\* it once, without gap or overlap; once the splitter is exhausted they are
\* the whole input.
C12_RunsCover ==
    call.fn = "linear_group_by_key" =>
        /\ \A i \in 1..Len(items) : items[i] # <<>>
        /\ Concat(items) \o inner.rest = call.text
        /\ done => Concat(items) = call.text

\* a text of three scripts, split to its end
C12_Witness ==
    /\ call.fn = "linear_group_by_key"
    /\ done
    /\ Len(items) >= 3
    /\ Len(call.text) = MaxText

\* the script of the run open before the k-th character of text: that of
\* the nearest earlier character that has one, Other when there is none
RECURSIVE OpenScript(_, _)
OpenScript(text, k) ==
    IF k <= 1 THEN "Other"
    ELSE IF ScriptOf(text[k - 1]) # "Other" THEN ScriptOf(text[k - 1])
    ELSE OpenScript(text, k - 1)

\* the places of text, as counts of characters before them, where a
\* character with a script other than the open run's follows
ScriptChanges(text) ==
    {k \in 1..(Len(text) - 1) :
        ScriptOf(text[k + 1]) # "Other" /\ ScriptOf(text[k + 1]) # OpenScript(text, k + 1)}

\* the places where the runs yielded so far end
RunEnds == {Len(Concat(SubSeq(items, 1, i))) : i \in 1..Len(items)}

\* C13: no run after the first starts with an Other character, and the run
\* boundaries yielded so far are exactly the places, in the text split so
\* far, before a character whose script is not Other and is not the script
\* of the run open there.
C13_BoundaryRule ==
    call.fn = "linear_group_by_key" =>
        /\ \A i \in 2..Len(items) : ScriptOf(items[i][1]) # "Other"
        /\ RunEnds \ {Len(call.text)}
             = {k \in ScriptChanges(call.text) : k <= Len(Concat(items))}

\* leading whitespace as a run of its own, then punctuation kept in a Latin run
C13_Witness ==
    /\ call.fn = "linear_group_by_key"
    /\ done
    /\ Len(items) = 3
    /\ ScriptOf(items[1][1]) = "Other"
    /\ ScriptOf(items[2][1]) = "Latin"
    /\ ScriptOf(items[2][Len(items[2])]) = "Other"

\* the step is a call of next() that returned a token made from a sub-span of the kind
Emits(kind) == Len(items') = Len(items) + 1 /\ items'[Len(items')].kind = kind

\* C14: both cursors are 0 when segment() returns its iterator, and no call
\* of next() decreases either (there is no reset at a run boundary or a new
\* segmenter call); a token made from a Simple sub-span starts at the cursor
\* and ends at the cursor plus the sub-span's length, in characters and in
\* bytes, and the call leaves each cursor at that end.
C14_ImplicitCursor ==
    /\ char_index = 0
    /\ byte_index = 0
    /\ [][/\ char_index' >= char_index
          /\ byte_index' >= byte_index
          /\ Emits("Simple") =>
                /\ tokens'[Len(tokens')].char_start = char_index
                /\ tokens'[Len(tokens')].char_end
                     = char_index + CharCount(items'[Len(items')].text)
                /\ tokens'[Len(tokens')].byte_start = byte_index
                /\ tokens'[Len(tokens')].byte_end
                     = byte_index + ByteLen(items'[Len(items')].text)
                /\ char_index' = char_index + CharCount(items'[Len(items')].text)
                /\ byte_index' = byte_index + ByteLen(items'[Len(items')].text)]_vars

\* a Simple token of a second run, of another script, at cursors past 0 that differ
C14_Witness ==
    /\ Len(tokens) >= 2
    /\ items[1].kind = "Simple"
    /\ items[2].kind = "Simple"
    /\ tokens[1].script # tokens[2].script
    /\ tokens[2].byte_start > tokens[2].char_start
    /\ tokens[2].char_start > 0
    /\ Len(tokens) = 2 => char_index = tokens[2].char_end

\* C15: a token made from a WithPosition sub-span starts and ends at the
\* cursor plus the sub-span's own offsets, in characters and in bytes; the
\* call leaves both cursors where they were when the sub-span is not flagged
\* last, and moves each by the sub-span's own end offset when it is.
C15_ExplicitCursor ==
    [][Emits("WithPosition") =>
          /\ tokens'[Len(tokens')].char_start = char_index + items'[Len(items')].char_start
          /\ tokens'[Len(tokens')].char_end = char_index + items'[Len(items')].char_end
          /\ tokens'[Len(tokens')].byte_start = byte_index + items'[Len(items')].byte_start
          /\ tokens'[Len(tokens')].byte_end = byte_index + items'[Len(items')].byte_end
          /\ IF items'[Len(items')].is_last_token
             THEN /\ char_index' = char_index + items'[Len(items')].char_end
                  /\ byte_index' = byte_index + items'[Len(items')].byte_end
             ELSE /\ char_index' = char_index
                  /\ byte_index' = byte_index]_vars

\* after a Latin token, two sub-spans of one Chinese call, the second flagged last
C15_Witness ==
    /\ Len(tokens) = 3
    /\ items[1].kind = "Simple"
    /\ items[2].kind = "WithPosition" /\ ~items[2].is_last_token
    /\ items[3].kind = "WithPosition" /\ items[3].is_last_token
    /\ tokens[2].char_start = 1 + items[2].char_start
    /\ tokens[3].char_start = 1 + items[3].char_start
    /\ char_index = 1 + items[3].char_end

\* segment_str() with the default options has been run to its end on a text
\* that is a single script run
SingleRunDone == done /\ options_aho = None /\ Len(RunsOf(original)) = 1

\* the registry entries the detected script and language map to; a language
\* the detector was not asked for matches the entry's, as in
\* language.unwrap_or($language)
MappedEntries ==
    {e \in SEGMENTERS : e.key[1] = script /\ (language = None \/ language = Some(e.key[2]))}

\* C16: for a text that is a single script run and whose detected script and
\* language map to the registry entry of segmenter S, the texts segment_str()
\* yields are those of the separator splitter with the default automaton over
\* the text, each match kept as one item and each gap replaced by the texts
\* of S.segment_str(gap).
C16_MatchesSplitterReference ==
    SingleRunDone =>
        \A e \in MappedEntries :
            Texts(items) = Texts(SpanItems(e.value, original, DEFAULT_SEPARATOR_AHO))

\* a Mandarin text with a separator between two words
C16_Witness ==
    /\ SingleRunDone
    /\ \E e \in MappedEntries : e.value = "ChineseSegmenter"
    /\ language = Some("Cmn")
    /\ Len(items) >= 3
    /\ \E i \in 1..Len(items) : items[i] = Simple(<<",">>)

\* C17 (as claimed): a static whose resource is broken is never constructed:
\* no thread reads a value of it, for every static, JIEBA included.
C17_InitFailureIsFatal ==
    call.fn = "statics" =>
        \A c \in Cells :
            Broken(c) => /\ lazy[c].state # "complete"
                         /\ \A t \in Threads : observed[t][c] = None

\* the part of C17 that holds: every static but JIEBA whose resource is
\* broken is never constructed, and a thread that used it has panicked
C17_FatalButJieba ==
    call.fn = "statics" =>
        \A c \in Cells \ {"JIEBA"} :
            Broken(c) => /\ lazy[c].state \in {"uninit", "running", "poisoned"}
                         /\ \A t \in Threads : observed[t][c] = None

\* C18: each static is constructed at most once; a thread that has read a
\* static read it after its construction completed and read the one value
\* it holds, the same for every thread; a constructed static never changes.
C18_InitializeOnce ==
    /\ [](call.fn = "statics" =>
            \A c \in Cells :
                /\ lazy[c].builds <= 1
                /\ \A t \in Threads :
                      observed[t][c] # None =>
                          lazy[c].state = "complete" /\ observed[t][c] = lazy[c].value)
    /\ [][\A c \in Cells : lazy[c].state = "complete" => lazy'[c] = lazy[c]]_vars

\* both threads have read one static while the closure of another is running
C18_Witness ==
    /\ call.fn = "statics"
    /\ \E c, d \in Cells :
          /\ c # d
          /\ \A t \in Threads : observed[t][c] # None
          /\ lazy[c].builds = 1
          /\ lazy[d].state = "running"

\* the places of text, as counts of characters before them, between a
\* lowercase letter and the uppercase letter that follows it
CamelCuts(text) == {k \in 1..(Len(text) - 1) : IsLower(text[k]) /\ IsUpper(text[k + 1])}

\* the places of text next to a space, a hyphen or an underscore
SeparatorCuts(text) ==
    {k \in 1..(Len(text) - 1) :
        text[k] \in {" "} \cup JoinerChars \/ text[k + 1] \in {" "} \cup JoinerChars}

\* the places inside the original where a token ends
TokenEnds == {tokens[i].char_end : i \in 1..Len(tokens)} \ {Len(original)}

\* the tokens of the exhausted pipeline tile the original and end exactly at
\* the run boundaries, at the separators when the default automaton is
\* used, and at the places given
LatinCutsAre(cuts) ==
    /\ Concat(Lemmas) = original
    /\ TokenEnds = cuts \cup ScriptChanges(original)
                        \cup (IF options_aho = None THEN SeparatorCuts(original) ELSE {})

WordsAfter(n) ==
    {w \in call.words :
        StartsWith(SubSeq(call.s, Len(Concat(SubSeq(ret[1], 1, n))) + 1, Len(call.s)), w)}

\* C20: the pieces the dictionary segmenter yields tile the span left to
\* right; each piece is the longest dictionary word that starts where the
\* piece before it ended, or the single character there when no word
\* starts there; for {"ab", "abc", "c"} and "abcd" the pieces are "abc", "d".
C20_GreedyLongestMatch ==
    (call.fn = "FstSegmenter" /\ ret # None) =>
        /\ Concat(ret[1]) = call.s
        /\ \A i \in 1..Len(ret[1]) :
              IF WordsAfter(i - 1) = {}
              THEN Len(ret[1][i]) = 1
              ELSE /\ ret[1][i] \in WordsAfter(i - 1)
                   /\ \A w \in WordsAfter(i - 1) : Len(w) <= Len(ret[1][i])
        /\ (call.words = AbcWords /\ call.s = AbcdText) =>
              ret[1] = <<SubSeq(AbcdText, 1, 3), SubSeq(AbcdText, 4, 4)>>

\* "abcd" segmented over {"ab", "abc", "c"}: the word "c" inside "abc" is not cut out
C20_Witness ==
    /\ call.fn = "FstSegmenter"
    /\ ret # None
    /\ call.words = AbcWords
    /\ call.s = AbcdText
    /\ Len(ret[1]) = 2
(***************************************************************************)
(* Dispatch under every order in which the registry can be iterated.       *)
(***************************************************************************)
\* the orders SEGMENTERS.iter() can yield the entries in: a HashMap fixes none
IterOrders ==
    {o \in [1..Cardinality(SEGMENTERS) -> SEGMENTERS] :
        \A i, j \in 1..Cardinality(SEGMENTERS) : i # j => o[i] # o[j]}

\* builds with one and with two segmenters registered for Cj
OrderBuilds == {AllFeatures, AllFeatures \ {"japanese"}, {"chinese", "japanese"}}

OrderInit ==
    /\ features \in OrderBuilds
    /\ whatlang \in {"Cmn", "Jpn", "Other"}
    /\ call \in {[fn |-> "segmenter_in_order", text |-> <<c>>, order |-> o] :
                    c \in DispatchChars, o \in IterOrders}
    /\ lindera = "whole"
    /\ lastFlags = NoFlags
    /\ options_aho = None
    /\ IterInit(<<>>)
    /\ ret = None
    /\ StaticsIdle

\* the call segmenter(&mut detector) for a run, the registry iterated in
\* the order of the call
segmenter_in_order_call ==
    /\ call.fn = "segmenter_in_order"
    /\ ret = None
    /\ ret' = Some(segmenter_in_order(StrDetection_new(call.text), call.order))
    /\ UNCHANGED <<env, iter, call>>

OrderSpec == OrderInit /\ [][segmenter_in_order_call]_vars

\* the character index in the run text at which the i-th yielded item starts
AhoStart(i) == Len(Concat(SubSeq(AhoTexts, 1, i - 1)))

\* C21: separator matches are leftmost-longest and do not overlap: every
\* Match item is, of the patterns of the automaton that occur at its start,
\* the longest one; no pattern occurs at any position of an Interleave item;
\* the items follow one another in the run text. With the default separators
\* the text ", " is yielded as the single item ", ".
C21_LeftmostLongest ==
    call.fn = "AhoSegmentedStrIter" =>
        /\ StartsWith(call.text, Concat(AhoTexts))
        /\ \A i \in 1..Len(items) :
              IF items[i].match_type = "Match"
              THEN /\ items[i].s \in PatternsAt(call.aho, call.text, AhoStart(i))
                   /\ \A p \in PatternsAt(call.aho, call.text, AhoStart(i)) :
                          Len(p) <= Len(items[i].s)
              ELSE \A k \in AhoStart(i)..(AhoStart(i) + Len(items[i].s) - 1) :
                       PatternsAt(call.aho, call.text, k) = {}
        /\ (done /\ call.aho = DEFAULT_SEPARATOR_AHO /\ call.text = <<",", " ">>) =>
               items = <<[s |-> <<",", " ">>, match_type |-> "Match"]>>

\* the default separators on a text holding ", " after a word
C21_Witness ==
    /\ call.fn = "AhoSegmentedStrIter"
    /\ call.aho = DEFAULT_SEPARATOR_AHO
    /\ done
    /\ Len(items) = 2
    /\ items[1].match_type = "Interleave"
    /\ items[2] = [s |-> <<",", " ">>, match_type |-> "Match"]

\* the sub-spans the k-th segment_str call of the composer returned
SubSpansOf(k) == Segmenter_segment_str(segCalls[k].segmenter, segCalls[k].s)

\* C22 (as claimed): of the sub-spans of every call that yields WithPosition
\* sub-spans exactly one is flagged last, the final one, and it ends at the
\* length of the span passed; once the text is processed the cursors have
\* advanced by the length of every span, to the length of the text.
C22_CursorAdvancesOncePerCall ==
    /\ \A k \in 1..Len(segCalls) :
           \E out \in {SubSpansOf(k)} :
               (out # <<>> /\ out[1].kind = "WithPosition") =>
                   /\ {i \in 1..Len(out) : out[i].is_last_token} = {Len(out)}
                   /\ out[Len(out)].char_end = CharCount(segCalls[k].s)
                   /\ out[Len(out)].byte_end = ByteLen(segCalls[k].s)
    /\ done => (char_index = CharCount(original) /\ byte_index = ByteLen(original))

\* C22 holds when the final sub-span of every Chinese call, and no other, is flagged last
C22_CursorWhenFlagged == (lastFlags.final /\ ~lastFlags.earlier) => C22_CursorAdvancesOncePerCall

\* the items the separator splitter yields for the runs of the text
SplitterItems ==
    LET runs == RunsOf(original)
    IN  Concat([i \in 1..Len(runs) |-> AhoItemsOf(runs[i], OptionsAho)])

\* C23: empty gaps are discarded: no item the separator splitter yields for
\* a run of the text is empty, and no span the composer has passed to
\* segment_str is empty, whether the text is empty, starts or ends with a
\* separator or holds adjacent separators.
C23_NoEmptyGap ==
    /\ \A k \in 1..Len(segCalls) : ByteLen(segCalls[k].s) > 0
    /\ \E ms \in {SplitterItems} : \A i \in 1..Len(ms) : ByteLen(ms[i].s) > 0

\* a text that starts with a separator, holds two adjacent ones and ends
\* with one: three matches, no gap
C23_Witness ==
    /\ done
    /\ Len(original) = 3
    /\ \A k \in 1..3 : PatternsAt(OptionsAho, original, k - 1) # {}
    /\ Len(items) = 3
    /\ segCalls = <<>>

\* the script and the language the composer holds for a run: the script of
\* its detector and the language the detector has after dispatch
RunTag(run) ==
    LET d == segmenter(StrDetection_new(run))
    IN  [script |-> StrDetection_script(d.detector), language |-> d.detector.language]

\* the tag of its run, for every sub-span of the text in order
ExpectedTags ==
    LET runs == RunsOf(original)
    IN  Concat([i \in 1..Len(runs) |->
                   [j \in 1..Len(RunItems(runs[i], OptionsAho)) |-> RunTag(runs[i])]])

TokenTags == [i \in 1..Len(tokens) |-> [script |-> tokens[i].script, language |-> tokens[i].language]]

\* C24: every token carries the script and the language of the run its text
\* lies in: the tokens' tags are, in order, those of the runs of the text,
\* the tag of a run once for each of its matches and of the sub-spans of its
\* gaps, and no character of a lemma belongs to another script than the
\* token's.
C24_TokenCarriesRunTag ==
    /\ \E tags \in {ExpectedTags} :
           /\ StartsWith(tags, TokenTags)
           /\ done => TokenTags = tags
    /\ \A i \in 1..Len(tokens) : \A k \in 1..Len(tokens[i].lemma) :
           ScriptOf(tokens[i].lemma[k]) \in {"Other", tokens[i].script}

\* two runs of different scripts, the first with a gap and a match, the
\* second with a detected language
C24_Witness ==
    /\ done
    /\ Len(tokens) = 3
    /\ tokens[2].lemma = <<",">>
    /\ tokens[2].script = tokens[1].script
    /\ tokens[2].script # "Other"
    /\ tokens[3].script = "Cj"
    /\ tokens[3].language # None
    /\ tokens[1].language = None

(***************************************************************************)
(* segment() called until exhaustion and beyond, on texts of Latin, Hangul *)
(* and Cj runs with separators, the analyzer giving no token included.     *)
(***************************************************************************)
ExhaustChars == {"a", ",", "han", "ji"}

\* longest text the iterator is exhausted on, in characters
MaxExhaust == 3

ExhaustInit ==
    /\ features \in Builds
    /\ \E text \in TextsUpTo(ExhaustChars, MaxExhaust) :
           /\ IterInit(text)
           /\ \/ EnvFor(text)
              \/ /\ HasScript(text, "Hangul") /\ "korean" \in features
                 /\ lindera = "none"
                 /\ whatlang = "Other"
                 /\ lastFlags = NoFlags
    /\ options_aho = None
    /\ call = [fn |-> "segment"]
    /\ ret = None
    /\ StaticsIdle

\* the caller keeps calling next()
ExhaustSpec ==
    ExhaustInit /\ [][SegmentedTokenIter_next]_vars /\ WF_vars(SegmentedTokenIter_next)

\* the next call of the composer's next() returns None
NextReturnsNone == SegmentedStrIter_next(StrIter).item = None

\* what the separator splitter of the open run has left: twice the bytes
\* from its position, less one when the match it has found is still to yield
AhoRank ==
    IF aho_iter = None THEN 0
    ELSE IF aho_iter[1].prev.either = "Left"
    THEN 2 * (ByteLen(aho_iter[1].text) - aho_iter[1].prev.left)
    ELSE 2 * (ByteLen(aho_iter[1].text) - aho_iter[1].prev.right.start) - 1

\* what is left to do: the bytes not yet split into runs, what the splitter
\* of the open run has left, the sub-spans waiting in current
Rank == <<ByteLen(inner.rest), AhoRank, Len(current)>>

\* the lexicographic order on ranks
RankLess(a, b) ==
    \/ a[1] < b[1]
    \/ a[1] = b[1] /\ a[2] < b[2]
    \/ a[1] = b[1] /\ a[2] = b[2] /\ a[3] < b[3]

\* C25: called repeatedly, next() returns None after finitely many calls,
\* also when a segmenter returns no sub-span for a gap and when a run holds
\* separators only: every call before exhaustion returns None or lowers the
\* rank, a triple of naturals in lexicographic order, which can be lowered
\* finitely many times only. From then on every call returns None again and
\* no further token is emitted.
C25_Terminates ==
    /\ [](AhoRank >= 0)
    /\ [](done => NextReturnsNone)
    /\ [][IF done THEN UNCHANGED <<done, tokens, items>>
          ELSE done' \/ RankLess(Rank', Rank)]_vars

\* exhausted on a text whose first run holds a separator only and whose
\* second run is a gap the analyzer gave no token for
C25_Witness ==
    /\ done
    /\ lindera = "none"
    /\ Len(segCalls) = 2
    /\ SubSpansOf(1) = <<>>
    /\ Len(tokens) = 2
    /\ tokens[1].script = "Other"
    /\ NextReturnsNone

\* C26 (as claimed): no token has an empty lemma, for an Arabic gap that is
\* exactly one of the two-character article prefixes as for every other.
C26_NoEmptyLemma ==
    \A i \in 1..Len(tokens) : tokens[i].lemma # <<>> /\ tokens[i].byte_start < tokens[i].byte_end

\* the only tokens with an empty lemma are the second sub-spans of Arabic gaps
\* that are exactly an article prefix
C26_EmptyOnlyAfterArticle ==
    \A i \in 1..Len(tokens) :
        tokens[i].lemma = <<>> =>
            /\ tokens[i].script = "Arabic"
            /\ i > 1
            /\ tokens[i - 1].lemma \in ArticlePrefixes
            /\ \E k \in 1..Len(segCalls) : segCalls[k].s = tokens[i - 1].lemma

\* the order with its k-th and (k+1)-th entries exchanged
Exchanged(order, k) ==
    [i \in 1..Len(order) |->
        IF i = k THEN order[k + 1] ELSE IF i = k + 1 THEN order[k] ELSE order[i]]

\* C27: dispatch does not depend on the order in which the registry is
\* iterated: under every order, the segmenter chosen for a run and the
\* detector as the call leaves it, its language detected or not, are those
\* under the order with any two neighbouring entries exchanged (every order
\* comes from every other by such exchanges), and those dispatch gives by
\* the number of entries of the script alone.
C27_OrderIndependent ==
    (call.fn = "segmenter_in_order" /\ ret # None) =>
        /\ \A k \in 1..(Len(call.order) - 1) :
               segmenter_in_order(StrDetection_new(call.text), Exchanged(call.order, k)) = ret[1]
        /\ ret[1] = segmenter(StrDetection_new(call.text))

\* a Cj run, two segmenters registered for Cj, the Japanese entry met
\* before the Mandarin one, the run detected as Mandarin
C27_Witness ==
    /\ call.fn = "segmenter_in_order"
    /\ ret # None
    /\ ScriptOf(call.text[1]) = "Cj"
    /\ \E i, j \in 1..Len(call.order) :
           /\ i < j
           /\ call.order[i].key = <<"Cj", "Jpn">>
           /\ call.order[j].key = <<"Cj", "Cmn">>
    /\ whatlang = "Cmn"
    /\ ret[1].segmenter = "ChineseSegmenter"
    /\ ret[1].detector.language = Some("Cmn")

====
